---- MODULE Spec2Model ----
(***************************************************************************)
(* A model of mw_api_client/qyoo.py: the Queue container, its type-checked *)
(* factories, concatenation, the _check_type helper, the request builders, *)
(* and the generic pagination routine _mklist with its flattening helper   *)
(* _convert.                                                               *)
(*                                                                         *)
(* Python values are modelled as records whose field name is their type:   *)
(* [int |-> n], [str |-> <<pieces>>], [none |-> TRUE]; the pieces of a     *)
(* title are its characters, a fixed string of the API is one piece.  A    *)
(* dict that is iterated or updated in order (the request parameters, a    *)
(* 'continue' block) is a sequence of [k |-> key, v |-> value] entries in  *)
(* insertion order; a parameter name is a sequence of tokens,              *)
(* <<"cl", "limit">> for 'cllimit'.  A raw JSON record whose fields are    *)
(* only looked up by name and passed on as keyword arguments is a function *)
(* from field names.  Each call of a method leaves its outcome in `ret`    *)
(* and, where it talks to the wiki, its requests and the responses in      *)
(* `requests` and `responses`.                                             *)
(***************************************************************************)
EXTENDS Integers, Sequences, FiniteSets, TLC

VARIABLES things, converter, pc, call, ret,
          params, limitkey, last_cont, result,
          requests, responses, wraps

vars == <<things, converter, pc, call, ret,
          params, limitkey, last_cont, result,
          requests, responses, wraps>>

(***************************************************************************)
(* Bounds of the model.                                                    *)
(***************************************************************************)
\* longest Queue (and longest iterable handed to a factory)
MaxThings == 2
\* most page records the server puts into one response
MaxPages == 2
\* most requests one pagination run is followed for
MaxRequests == 2

(***************************************************************************)
(* Python values.                                                          *)
(***************************************************************************)
PyInt(n) == [int |-> n]
PyStr(s) == [str |-> s]
PyNone == [none |-> TRUE]
IsInt(v) == DOMAIN v = {"int"}
IsStr(v) == DOMAIN v = {"str"}

\* the literal 'max'
MAX == PyStr(<<"max">>)

Digit(d) == CASE d = 0 -> "0" [] d = 1 -> "1" [] d = 2 -> "2" [] d = 3 -> "3"
              [] d = 4 -> "4" [] d = 5 -> "5" [] d = 6 -> "6" [] d = 7 -> "7"
              [] d = 8 -> "8" [] d = 9 -> "9"

RECURSIVE Digits(_)
Digits(n) == IF n < 10 THEN <<Digit(n)>>
             ELSE Digits(n \div 10) \o <<Digit(n % 10)>>

\* str(v): the characters of a str, the decimal digits of an int
Str(v) == IF IsStr(v) THEN v.str
          ELSE IF IsInt(v) THEN Digits(v.int)
          ELSE <<"N", "o", "n", "e">>

(***************************************************************************)
(* Ordered dicts.                                                          *)
(***************************************************************************)
Entry(k, v) == [k |-> k, v |-> v]
Keys(d) == {d[i].k : i \in 1..Len(d)}
Has(d, k) == k \in Keys(d)
IndexOf(d, k) == CHOOSE i \in 1..Len(d) : d[i].k = k
Get(d, k) == d[IndexOf(d, k)].v

\* d[k] = v: an existing key keeps its position, a new key goes last
SetItem(d, k, v) ==
    IF Has(d, k) THEN [d EXCEPT ![IndexOf(d, k)] = Entry(k, v)]
    ELSE Append(d, Entry(k, v))

\* d.update(e)
RECURSIVE Update(_, _)
Update(d, e) == IF e = <<>> THEN d
                ELSE Update(SetItem(d, Head(e).k, Head(e).v), Tail(e))

\* k.endswith('limit') for a parameter name
EndsWithLimit(k) == Len(k) > 0 /\ k[Len(k)] = "limit"

(***************************************************************************)
(* The domain objects held by a Queue (page.py).                           *)
(***************************************************************************)
PageA == [cls |-> "Page", title |-> PyStr(<<"A">>), pageid |-> PyInt(1)]
PageB == [cls |-> "Page", title |-> PyStr(<<"B", "c">>), pageid |-> PyInt(12)]
Rev7 == [cls |-> "Revision", revid |-> PyInt(7)]
Items == {PageA, PageB, Rev7}

\* a Python list object and a Queue object, as values handed around
PyList(xs) == [list |-> xs]
QueueObj(xs) == [queue |-> xs]

\* type(x).__name__
TypeOf(x) == IF "cls" \in DOMAIN x THEN x.cls
             ELSE IF "list" \in DOMAIN x THEN "list"
             ELSE IF "queue" \in DOMAIN x THEN "Queue"
             ELSE IF "str" \in DOMAIN x THEN "str"
             ELSE IF "int" \in DOMAIN x THEN "int"
             ELSE "NoneType"

\* isinstance(thing, typeobj); Page, Revision and Queue have no subclasses
IsInstance(thing, typeobj) == TypeOf(thing) = typeobj

SeqsUpTo(S, n) == UNION {[1..m -> S] : m \in 0..n}

(***************************************************************************)
(* Outcomes of a call: a returned value or a raised exception.             *)
(***************************************************************************)
Return(v) == [exc |-> "none", val |-> v]
Raise(e) == [exc |-> e, val |-> PyNone]

(***************************************************************************)
(* Queue.__init__ and the factories.                                       *)
(***************************************************************************)
check_is_page_lax(thing) == Return(thing)

\* frompages.check_is_page
check_is_page(thing) ==
    IF ~IsInstance(thing, "Page") THEN Raise("TypeError") ELSE Return(thing)

\* fromrevisions.check_is_rev
check_is_rev(thing) ==
    IF ~IsInstance(thing, "Revision") THEN Raise("TypeError") ELSE Return(thing)

\* self._converter(thing); "identity" is the default lambda i: i
Convert1(conv, thing) ==
    CASE conv = "identity" -> Return(thing)
      [] conv = "check_is_page" -> check_is_page(thing)
      [] conv = "check_is_rev" -> check_is_rev(thing)

\* list(map(self._converter, things)): the first failing item raises
RECURSIVE MapConverter(_, _)
MapConverter(conv, xs) ==
    IF xs = <<>> THEN Return(<<>>)
    ELSE LET h == Convert1(conv, Head(xs)) IN
         IF h.exc # "none" THEN h
         ELSE LET t == MapConverter(conv, Tail(xs)) IN
              IF t.exc # "none" THEN t
              ELSE Return(<<h.val>> \o t.val)

\* the converter each way of constructing a Queue installs
Factories == {"Queue", "frompages", "fromrevisions"}
FactoryConverter(f) ==
    CASE f = "Queue" -> "identity"
      [] f = "frompages" -> "check_is_page"
      [] f = "fromrevisions" -> "check_is_rev"

(***************************************************************************)
(* Queue._check_type                                                       *)
(***************************************************************************)
\* s.strip(ch)
RECURSIVE LStrip(_, _)
LStrip(s, ch) == IF s # <<>> /\ Head(s) = ch THEN LStrip(Tail(s), ch) ELSE s
RECURSIVE RStrip(_, _)
RStrip(s, ch) == IF s # <<>> /\ s[Len(s)] = ch
                 THEN RStrip(SubSeq(s, 1, Len(s) - 1), ch) ELSE s
Strip(s, ch) == RStrip(LStrip(s, ch), ch)

\* the for loop of _check_type; attr is <<>> for None, <<name>> otherwise
RECURSIVE CheckTypeLoop(_, _, _, _)
CheckTypeLoop(xs, typeobj, attr, acc) ==
    IF xs = <<>> THEN Return(acc)
    ELSE LET thing == Head(xs) IN
         IF ~IsInstance(thing, typeobj) THEN Raise("TypeError")
         ELSE IF attr = <<>> THEN CheckTypeLoop(Tail(xs), typeobj, attr, acc)
         ELSE IF attr[1] \notin DOMAIN thing THEN Raise("AttributeError")
         ELSE CheckTypeLoop(Tail(xs), typeobj, attr,
                            acc \o Str(thing[attr[1]]) \o <<"|">>)

check_type_unchecked(xs, typeobj, attr) ==
    LET r == CheckTypeLoop(xs, typeobj, attr, <<>>) IN
    IF r.exc = "TypeError" THEN Return(PyStr(<<>>))
    ELSE IF r.exc # "none" THEN r ELSE Return(PyStr(r.val))

\* _check_type: the value of things.strip('|') is computed and dropped
\* (str is immutable), the unstripped string is returned
check_type(xs, typeobj, attr) ==
    LET r == CheckTypeLoop(xs, typeobj, attr, <<>>) IN
    IF r.exc # "none" THEN r
    ELSE LET dropped == Strip(r.val, "|") IN Return(PyStr(r.val))

(***************************************************************************)
(* Queue.__iadd__ / Queue.add and Queue.__add__                            *)
(***************************************************************************)
\* self._things += self._converter(thing); the method has no return
\* statement.  Outcome plus the new self._things.
iadd(xs, conv, thing) ==
    LET c == Convert1(conv, thing) IN
    IF c.exc # "none" THEN [out |-> c, things |-> xs]
    ELSE IF "list" \notin DOMAIN c.val
         THEN [out |-> Raise("TypeError"), things |-> xs]
    ELSE [out |-> Return(PyNone), things |-> xs \o c.val.list]

\* __add__: 'self += other._things' rebinds the local name self to what
\* __iadd__ returned, and that is what 'return self' returns
add(xs, conv, other) ==
    IF ~IsInstance(other, "Queue")
    THEN [out |-> Raise("TypeError"), things |-> xs]
    ELSE LET r == iadd(xs, conv, PyList(other.queue)) IN
         IF r.out.exc # "none" THEN r
         ELSE [out |-> Return(r.out.val), things |-> r.things]

(***************************************************************************)
(* Queue._convert                                                          *)
(***************************************************************************)
\* a constructed domain object: the class, the positional arguments after
\* the wiki handle, the keyword arguments the constructor received, and the
\* attributes set on it afterwards
New(cls, args, kw) == [cls |-> cls, args |-> args, kw |-> kw, attrs |-> <<>>]
SetAttr(obj, name, v) == [obj EXCEPT !.attrs = (name :> v) @@ obj.attrs]

star_kept(r) ==
    IF "*" \in DOMAIN r
    THEN [f \in DOMAIN r \cup {"content"} |->
             IF f = "content" THEN r["*"] ELSE r[f]]
    ELSE r

\* if '*' in r: r['content'] = r['*']; del r['*']
star_to_content(r) ==
    IF "*" \in DOMAIN r
    THEN [f \in (DOMAIN r \ {"*"}) \cup {"content"} |->
             IF f = "content" THEN r["*"] ELSE r[f]]
    ELSE r

\* isinstance(iterable, dict): iterable = iterable.values()
Values(iterable) ==
    IF "dict" \in DOMAIN iterable
    THEN [n \in 1..Len(iterable.dict) |-> iterable.dict[n].v]
    ELSE iterable.list

\* len(iterable)
PyLen(iterable) ==
    IF "dict" \in DOMAIN iterable THEN Len(iterable.dict) ELSE Len(iterable.list)

children_dropped(js, convertedi, cls2) == <<>>

\* the inner loop: the children of one parent
ConvertChildren(js, convertedi, cls2) ==
    [n \in 1..Len(js) |->
        LET j == star_to_content(js[n]) IN
        IF cls2 = "Revision" THEN New(cls2, <<convertedi>>, j)
        ELSE New(cls2, <<>>, j)]

\* one turn of the outer loop; i[key] of a record without the field raises
ConvertOne(raw, key, cls1, cls2) ==
    LET i == star_to_content(raw)
        convertedi == New(cls1, <<>>, i)
    IN  IF key \notin DOMAIN i THEN Raise("KeyError")
        ELSE Return(SetAttr(convertedi, key,
                            ConvertChildren(i[key], convertedi, cls2)))

RECURSIVE ConvertLoop(_, _, _, _)
ConvertLoop(rs, key, cls1, cls2) ==
    IF rs = <<>> THEN Return(<<>>)
    ELSE LET h == ConvertOne(Head(rs), key, cls1, cls2) IN
         IF h.exc # "none" THEN h
         ELSE LET t == ConvertLoop(Tail(rs), key, cls1, cls2) IN
              IF t.exc # "none" THEN t
              ELSE Return(<<h.val>> \o t.val)

\* _convert(iterable, key, cls1, cls2)
Convert(iterable, key, cls1, cls2) ==
    ConvertLoop(Values(iterable), key, cls1, cls2)

(***************************************************************************)
(* The request builders' parameter dicts.                                  *)
(***************************************************************************)
\* the builders that delegate to _mklist which the model follows
MkListBuilders == {"categories", "deletedrevisions"}

BuilderKey(b) == b
BuilderCls2(b) == IF b = "deletedrevisions" THEN "Revision" ELSE "Page"
BuilderLimitKey(b) == IF b = "deletedrevisions" THEN <<"drv", "limit">>
                      ELSE <<"cl", "limit">>

\* params = {...}; params.update(evil)
BuildParams(b, titles, limit, evil) ==
    LET base ==
          IF b = "categories"
          THEN << Entry(<<"action">>, PyStr(<<"query">>)),
                  Entry(<<"titles">>, titles),
                  Entry(<<"prop">>, PyStr(<<"categories">>)),
                  Entry(<<"cl", "prop">>, PyStr(<<"sortkey|timestamp|hidden">>)),
                  Entry(<<"cl", "show">>, PyNone),
                  Entry(<<"cl", "limit">>, limit) >>
          ELSE << Entry(<<"action">>, PyStr(<<"query">>)),
                  Entry(<<"titles">>, titles),
                  Entry(<<"prop">>, PyStr(<<"deletedrevisions">>)),
                  Entry(<<"drv", "limit">>, limit) >>
    IN  Update(base, evil)

(***************************************************************************)
(* Queue._mklist                                                           *)
(***************************************************************************)
\* for k in params: if k.endswith('limit'): limitkey = k; break
FindLimitKey(p) ==
    IF \E n \in 1..Len(p) : EndsWithLimit(p[n].k)
    THEN p[CHOOSE n \in 1..Len(p) :
              /\ EndsWithLimit(p[n].k)
              /\ \A m \in 1..(n - 1) : ~EndsWithLimit(p[m].k)].k
    ELSE <<"limit">>

continue_only_max(p, lk, pages) == Get(p, lk) = MAX

continue_when_full(p, lk, pages) ==
    \/ Get(p, lk) = MAX
    \/ PyLen(pages) <= Get(p, lk).int

\* params[limitkey] == 'max' or len(data['query']['pages']) < params[limitkey]
MayContinue(p, lk, pages) ==
    \/ Get(p, lk) = MAX
    \/ PyLen(pages) < Get(p, lk).int

merge_nothing(p, lc) == p

\* params.update(last_cont)
NextRequestParams(p, lc) == Update(p, lc)

\* last_cont = data['continue']; last_cont[limitkey] = self.wiki._wraplimit(params)
NewLastCont(cont, lk, w) == SetItem(cont, lk, w)

(***************************************************************************)
(* The collaborators: wiki.request and wiki._wraplimit.                    *)
(***************************************************************************)
\* the values a limit argument, and the limit-capping helper's result, take
Limits == {MAX, PyInt(1), PyInt(2)}

\* wiki._wraplimit(params): an external policy, any limit value
WrapLimit(p) == Limits

\* the nested records of the j-th page record of the n-th response
ServerChild(n, j, c) ==
    LET plain == [name |-> PyStr(<<"c">> \o Digits(n) \o Digits(j) \o Digits(c))]
    IN  IF c % 2 = 1 THEN ("*" :> PyStr(<<"text">>)) @@ plain ELSE plain

\* the j-th page record of the n-th response
ServerRecord(n, j, key) ==
    LET plain == (key :> [c \in 1..((n + j) % 3) |-> ServerChild(n, j, c)])
                 @@ [title |-> PyStr(<<"P">> \o Digits(n) \o Digits(j))]
    IN  IF (n + j) % 2 = 0 THEN ("*" :> PyStr(<<"body">>)) @@ plain ELSE plain

\* the 'continue' blocks the server may send; the second names the limit
\* parameter itself
ContBlocks(lk) ==
    { << Entry(<<lk[1], "continue">>, PyStr(<<"x">>)),
         Entry(<<"continue">>, PyStr(<<"-||">>)) >>,
      << Entry(lk, PyInt(1)),
         Entry(<<lk[1], "continue">>, PyStr(<<"y">>)) >> }

\* what wiki.request may return to the n-th request of a run: up to
\* MaxPages page records, and a 'continue' block or none; the server's data
\* ends with the MaxRequests-th response at the latest
ServerData(key, lk, n) ==
    LET Pages == {PyList([j \in 1..m |-> ServerRecord(n, j, key)]) : m \in 0..MaxPages}
        Last == {("query" :> [pages |-> ps]) : ps \in Pages}
        More == {("continue" :> c) @@ ("query" :> [pages |-> ps]) :
                    ps \in Pages, c \in ContBlocks(lk)}
    IN  IF n < MaxRequests THEN Last \cup More ELSE Last

(***************************************************************************)
(* State.                                                                  *)
(***************************************************************************)
Pending == [exc |-> "pending", val |-> PyNone]
NoCall == [op |-> "none", pre |-> <<>>, arg |-> PyNone]

Init ==
    /\ things = <<>>
    /\ converter = "identity"
    /\ pc = "idle"
    /\ call = NoCall
    /\ ret = Return(PyNone)
    /\ params = <<>>
    /\ limitkey = <<>>
    /\ last_cont = <<>>
    /\ result = <<>>
    /\ requests = <<>>
    /\ responses = <<>>
    /\ wraps = <<>>

\* a call that does not enter _mklist starts with nothing requested
NoFrame ==
    /\ params' = <<>>
    /\ limitkey' = <<>>
    /\ last_cont' = <<>>
    /\ result' = <<>>
    /\ requests' = <<>>
    /\ responses' = <<>>
    /\ wraps' = <<>>

\* Queue(wiki, xs), Queue.frompages(wiki, xs), Queue.fromrevisions(wiki, xs):
\* a failed construction leaves the Queue built before in place
Construct ==
    /\ pc = "idle"
    /\ \E f \in Factories, xs \in SeqsUpTo(Items, MaxThings) :
         LET r == MapConverter(FactoryConverter(f), xs) IN
         /\ call' = [op |-> f, pre |-> things, arg |-> PyList(xs)]
         /\ ret' = IF r.exc # "none" THEN r ELSE Return(PyNone)
         /\ things' = IF r.exc # "none" THEN things ELSE r.val
         /\ converter' = IF r.exc # "none" THEN converter ELSE FactoryConverter(f)
    /\ pc' = "done"
    /\ NoFrame

\* self._check_type(typeobj, attr)
CheckTypeCall ==
    /\ pc = "idle"
    /\ \E typeobj \in {"Page", "Revision"},
          attr \in {<<>>, <<"title">>, <<"pageid">>, <<"revid">>} :
         /\ call' = [op |-> "_check_type", pre |-> things,
                     arg |-> [typeobj |-> typeobj, attr |-> attr]]
         /\ ret' = check_type(things, typeobj, attr)
    /\ pc' = "done"
    /\ UNCHANGED <<things, converter>>
    /\ NoFrame

\* queue.add(thing), thing a list or a single item
IAddCall ==
    /\ pc = "idle"
    /\ \E thing \in Items \cup {PyList(xs) : xs \in SeqsUpTo(Items, MaxThings - Len(things))} :
         LET r == iadd(things, converter, thing) IN
         /\ call' = [op |-> "add", pre |-> things, arg |-> thing]
         /\ ret' = r.out
         /\ things' = r.things
    /\ pc' = "done"
    /\ UNCHANGED converter
    /\ NoFrame

\* queue + other, other a Queue or a plain list
AddCall ==
    /\ pc = "idle"
    /\ \E xs \in SeqsUpTo(Items, MaxThings - Len(things)) :
       \E other \in {QueueObj(xs), PyList(xs)} :
         LET r == add(things, converter, other) IN
         /\ call' = [op |-> "__add__", pre |-> things, arg |-> other]
         /\ ret' = r.out
         /\ things' = r.things
    /\ pc' = "done"
    /\ UNCHANGED converter
    /\ NoFrame

ImageinfoCall_requesting ==
    /\ pc = "idle"
    /\ \E evil \in {<<>>, <<Entry(<<"ii", "limit">>, MAX)>>} :
         /\ call' = [op |-> "imageinfo", pre |-> things, arg |-> evil]
         /\ ret' = Raise("NotImplementedError")
         /\ requests' = <<evil>>
    /\ pc' = "done"
    /\ UNCHANGED <<things, converter>>
    /\ params' = <<>> /\ limitkey' = <<>> /\ last_cont' = <<>>
    /\ result' = <<>> /\ responses' = <<>> /\ wraps' = <<>>

\* queue.imageinfo(*_, **evil)
ImageinfoCall ==
    /\ pc = "idle"
    /\ \E evil \in {<<>>, <<Entry(<<"ii", "limit">>, MAX)>>} :
         /\ call' = [op |-> "imageinfo", pre |-> things, arg |-> evil]
         /\ ret' = Raise("NotImplementedError")
    /\ pc' = "done"
    /\ UNCHANGED <<things, converter>>
    /\ NoFrame

\* the builder calls the model follows: categories(limit) and
\* deletedrevisions(limit, rvlimit=1), the second with a further parameter
\* whose name ends in 'limit' among its extra keyword arguments (**evil)
BuilderCalls ==
    { [b |-> "categories", evil |-> <<>>],
      [b |-> "deletedrevisions", evil |-> <<Entry(<<"rv", "limit">>, PyInt(1))>>] }

\* categories(limit, **evil) and deletedrevisions(limit, **evil) up to the
\* first turn of _mklist's loop: the type check, the parameter dict, and
\* _mklist's initialisation
BuilderCall ==
    /\ pc = "idle"
    /\ \E c \in BuilderCalls, limit \in Limits :
         LET b == c.b
             evil == c.evil
             titles == check_type(things, "Page", <<"title">>)
             p == BuildParams(b, titles.val, limit, evil)
         IN  /\ call' = [op |-> b, pre |-> things,
                         arg |-> [limit |-> limit, evil |-> evil, params |-> p,
                                  key |-> BuilderKey(b), cls2 |-> BuilderCls2(b)]]
             /\ IF titles.exc # "none"
                THEN /\ ret' = titles
                     /\ pc' = "done"
                     /\ params' = <<>>
                     /\ limitkey' = <<>>
                ELSE /\ ret' = Pending
                     /\ pc' = "mklist"
                     /\ params' = p
                     /\ limitkey' = FindLimitKey(p)
    /\ last_cont' = <<>>
    /\ result' = <<>>
    /\ requests' = <<>>
    /\ responses' = <<>>
    /\ wraps' = <<>>
    /\ UNCHANGED <<things, converter>>

\* one turn of _mklist's while loop: the request, the conversion of the
\* response, and the decision to go on or to return
MkListIter ==
    /\ pc = "mklist"
    /\ LET p == NextRequestParams(params, last_cont) IN
       \E data \in ServerData(call.arg.key, limitkey, Len(requests) + 1) :
         LET pages == data["query"].pages
             conv == Convert(pages, call.arg.key, "Page", call.arg.cls2)
         IN  /\ params' = p
             /\ requests' = Append(requests, p)
             /\ responses' = Append(responses, data)
             /\ IF conv.exc # "none"
                THEN /\ ret' = conv
                     /\ pc' = "done"
                     /\ UNCHANGED <<result, last_cont, wraps>>
                ELSE /\ result' = result \o conv.val
                     /\ IF ~Has(p, limitkey)
                        THEN /\ ret' = Raise("KeyError")
                             /\ pc' = "done"
                             /\ UNCHANGED <<last_cont, wraps>>
                        ELSE IF MayContinue(p, limitkey, pages) /\ "continue" \in DOMAIN data
                        THEN \E w \in WrapLimit(p) :
                               /\ last_cont' = NewLastCont(data["continue"], limitkey, w)
                               /\ wraps' = Append(wraps, [arg |-> p, ret |-> w])
                               /\ ret' = Pending
                               /\ pc' = "mklist"
                        ELSE /\ ret' = Return(PyList(result \o conv.val))
                             /\ pc' = "done"
                             /\ UNCHANGED <<last_cont, wraps>>
    /\ UNCHANGED <<things, converter, call, limitkey>>

\* '|'.join(xs)
RECURSIVE Join(_, _)
Join(xs, sep) == IF xs = <<>> THEN <<>>
                 ELSE IF Len(xs) = 1 THEN Head(xs).str
                 ELSE Head(xs).str \o <<sep>> \o Join(Tail(xs), sep)

\* the page collections wiki.request may return to info(): a mapping keyed
\* by page id or a sequence
InfoPages ==
    UNION {{ PyList([j \in 1..m |-> [title |-> PyStr(<<"P">> \o Digits(j))]]),
             [dict |-> [j \in 1..m |->
                          Entry(PyStr(Digits(j)), [title |-> PyStr(<<"P">> \o Digits(j))])]] }
           : m \in 0..MaxPages}

\* queue.info(testactions, **evil)
InfoCall ==
    /\ pc = "idle"
    /\ \E testactions \in {PyNone, PyStr(<<"read">>),
                           PyList(<<PyStr(<<"read">>), PyStr(<<"edit">>)>>)} :
         LET titles == check_type(things, "Page", <<"title">>)
             p == << Entry(<<"action">>, PyStr(<<"query">>)),
                     Entry(<<"titles">>, titles.val),
                     Entry(<<"prop">>, PyStr(<<"info">>)),
                     Entry(<<"in", "prop">>, PyStr(<<"protection|talkid|...">>)),
                     Entry(<<"in", "testactions">>,
                           IF IsStr(testactions) THEN testactions
                           ELSE PyStr(Join(testactions.list, "|"))) >>
         IN  /\ call' = [op |-> "info", pre |-> things, arg |-> testactions]
             /\ IF titles.exc # "none"
                THEN /\ ret' = titles
                     /\ UNCHANGED <<params, requests, responses, result>>
                ELSE IF testactions = PyNone
                THEN /\ ret' = Raise("TypeError")
                     /\ UNCHANGED <<params, requests, responses, result>>
                ELSE \E pages \in InfoPages :
                       /\ params' = p
                       /\ requests' = <<p>>
                       /\ responses' = <<("query" :> [pages |-> pages])>>
                       /\ IF "dict" \notin DOMAIN pages
                          THEN /\ ret' = Raise("AttributeError")
                               /\ result' = <<>>
                          ELSE LET objs == [j \in 1..PyLen(pages) |->
                                              New("Page", <<>>,
                                                  ("getinfo" :> FALSE) @@ Values(pages)[j])]
                               IN  /\ ret' = Return(PyList(objs))
                                   /\ result' = objs
    /\ pc' = "done"
    /\ UNCHANGED <<things, converter, limitkey, last_cont, wraps>>

\* the raw records _convert is tried on: with and without '*', with a
\* 'content' field of their own, with no, one or two nested records, and
\* without the nested field
RawChildPlain == [name |-> PyStr(<<"c">>)]
RawChildStar == ("*" :> PyStr(<<"text">>)) @@ [name |-> PyStr(<<"d">>)]
RawChildBoth == ("*" :> PyStr(<<"text">>)) @@ [name |-> PyStr(<<"e">>),
                                               content |-> PyStr(<<"old">>)]
RawParents(key) ==
    LET Heads == { [title |-> PyStr(<<"P">>)],
                   ("*" :> PyStr(<<"body">>)) @@ [title |-> PyStr(<<"Q">>)],
                   ("*" :> PyStr(<<"body">>)) @@ [title |-> PyStr(<<"R">>),
                                                  content |-> PyStr(<<"old">>)] }
        Nested == { <<>>, <<RawChildStar>>, <<RawChildPlain, RawChildBoth>> }
    IN  Heads \cup {(key :> js) @@ h : h \in Heads, js \in Nested}

\* a page collection as a sequence, or as a mapping keyed by page id
AsIterable(rs, asdict) ==
    IF asdict THEN [dict |-> [n \in 1..Len(rs) |-> Entry(PyStr(Digits(n)), rs[n])]]
    ELSE PyList(rs)

\* self._convert(iterable, key, Page, cls2)
ConvertCall ==
    /\ pc = "idle"
    /\ \E b \in MkListBuilders, asdict \in BOOLEAN :
       \E rs \in SeqsUpTo(RawParents(BuilderKey(b)), MaxPages) :
         /\ call' = [op |-> "_convert", pre |-> things,
                     arg |-> [iterable |-> AsIterable(rs, asdict),
                              key |-> BuilderKey(b), cls2 |-> BuilderCls2(b)]]
         /\ ret' = Convert(AsIterable(rs, asdict), BuilderKey(b), "Page", BuilderCls2(b))
    /\ pc' = "done"
    /\ UNCHANGED <<things, converter>>
    /\ NoFrame

\* the caller takes the outcome of the finished call and is free to make
\* the next one
Discard ==
    /\ pc = "done"
    /\ pc' = "idle"
    /\ call' = NoCall
    /\ ret' = Return(PyNone)
    /\ UNCHANGED <<things, converter>>
    /\ NoFrame

Next ==
    \/ Construct
    \/ CheckTypeCall
    \/ IAddCall
    \/ AddCall
    \/ ImageinfoCall
    \/ BuilderCall
    \/ MkListIter
    \/ InfoCall
    \/ Discard

Spec == Init /\ [][Next]_vars

\* _convert on its own, tried on every shape of raw record
NextConvert ==
    \/ ConvertCall
    \/ Discard

SpecConvert == Init /\ [][NextConvert]_vars

(***************************************************************************)
(* Properties.                                                             *)
(***************************************************************************)
InMkList == call.op \in MkListBuilders
HasCont(data) == "continue" \in DOMAIN data
PagesOf(i) == responses[i]["query"].pages
LimitAt(i) == Get(requests[i], limitkey)
ParentsOf(i) == Convert(PagesOf(i), call.arg.key, "Page", call.arg.cls2).val
UnderLimit(i) == LimitAt(i) = MAX \/ PyLen(PagesOf(i)) < LimitAt(i).int
FullPage(i) == LimitAt(i) = MAX \/ PyLen(PagesOf(i)) = LimitAt(i).int
TwoResponses == /\ InMkList
                /\ Len(responses) >= 1
                /\ HasCont(responses[1])
                /\ Len(responses) >= 2 => ~HasCont(responses[2])

\* C1 as stated: whenever the first response has a 'continue' block and a
\* full-size page (any size under 'max', as many records as a numeric
\* limit) and the second response has none, a second request follows the
\* first and the run ends after it with the parents of the first page
\* followed by those of the second.
C1_FullPageTwoRequests ==
    (TwoResponses /\ FullPage(1)) =>
        IF Len(responses) = 1 THEN pc = "mklist"
        ELSE /\ pc = "done"
             /\ Len(requests) = 2
             /\ ret = Return(PyList(ParentsOf(1) \o ParentsOf(2)))

\* C1 amended: with a 'continue' block in the first response and none in
\* the second, the run makes exactly two requests and returns the first
\* page's parents followed by the second page's when the limit is 'max' or
\* the first page holds fewer records than the numeric limit; when the
\* first page holds as many records as the numeric limit or more, the run
\* makes exactly one request and returns the first page's parents alone.
C1_TwoRequestsUnlessFull ==
    TwoResponses =>
        IF UnderLimit(1)
        THEN IF Len(responses) = 1 THEN pc = "mklist"
             ELSE /\ pc = "done"
                  /\ Len(requests) = 2
                  /\ ret = Return(PyList(ParentsOf(1) \o ParentsOf(2)))
        ELSE /\ pc = "done"
             /\ Len(requests) = 1
             /\ ret = Return(PyList(ParentsOf(1)))

C1_Witness ==
    /\ InMkList /\ pc = "done" /\ Len(requests) = 2
    /\ HasCont(responses[1]) /\ ~HasCont(responses[2])
    /\ LimitAt(1) # MAX
    /\ PyLen(PagesOf(1)) >= 1 /\ PyLen(PagesOf(2)) >= 1
    /\ ret.exc = "none" /\ Len(ret.val.list) = PyLen(PagesOf(1)) + PyLen(PagesOf(2))

\* C2: when the first response has no 'continue' block the run is over
\* after one request, and what it returns is one Page per page record of
\* that response, in response order, whose attribute `key` (and no other)
\* is set to one child of the builder's child class per nested record, in
\* order.
C2_SinglePage ==
    (InMkList /\ Len(responses) >= 1 /\ ~HasCont(responses[1])) =>
        /\ pc = "done"
        /\ Len(requests) = 1
        /\ ret.exc = "none"
        /\ LET raw == Values(PagesOf(1))
               out == ret.val.list
               key == call.arg.key
           IN  /\ Len(out) = Len(raw)
               /\ \A n \in 1..Len(raw) :
                    /\ out[n].cls = "Page"
                    /\ out[n].kw.title = raw[n].title
                    /\ DOMAIN out[n].attrs = {key}
                    /\ Len(out[n].attrs[key]) = Len(raw[n][key])
                    /\ \A m \in 1..Len(raw[n][key]) :
                         /\ out[n].attrs[key][m].cls = call.arg.cls2
                         /\ out[n].attrs[key][m].kw.name = raw[n][key][m].name

C2_Witness ==
    /\ InMkList /\ pc = "done" /\ Len(requests) = 1
    /\ ~HasCont(responses[1])
    /\ PyLen(PagesOf(1)) = 2
    /\ LimitAt(1) = PyInt(1)
    /\ \E n \in 1..2 : Len(ret.val.list[n].attrs[call.arg.key]) >= 1

\* C3: after the i-th response the loop goes on to another request exactly
\* when the response has a 'continue' block and the limit parameter of the
\* i-th request is 'max' or exceeds the number of page records returned;
\* and a loop that stops returns what it has accumulated.
C3_ContinueIff ==
    InMkList =>
        /\ Len(requests) = Len(responses)
        /\ \A i \in 1..Len(responses) :
             (i < Len(requests) \/ pc = "mklist")
                 <=> (HasCont(responses[i]) /\ UnderLimit(i))
        /\ (pc = "done" /\ requests # <<>>) => ret = Return(PyList(result))

C3_Witness ==
    /\ InMkList /\ pc = "done" /\ Len(requests) = 1
    /\ HasCont(responses[1])
    /\ PyLen(PagesOf(1)) = 2 /\ LimitAt(1) = PyInt(2)

\* C4 as stated: a + b for another Queue b returns a Queue holding a's
\* items followed by b's; a + b for anything else raises TypeError and
\* leaves a's items as they were.
C4_ConcatReturnsQueue ==
    call.op = "__add__" =>
        IF IsInstance(call.arg, "Queue")
        THEN /\ ret.exc = "none"
             /\ "queue" \in DOMAIN ret.val
             /\ ret.val.queue = call.pre \o call.arg.queue
        ELSE /\ ret.exc = "TypeError"
             /\ things = call.pre

\* C5 as stated: _check_type with an attribute, on a Queue of n >= 1 items
\* of the required kind, returns a string that neither starts nor ends with
\* '|' and holds exactly n - 1 of them.
C5_JoinedWithoutTrailingBar ==
    (/\ call.op = "_check_type"
     /\ ret.exc = "none"
     /\ call.arg.attr # <<>>
     /\ Len(things) >= 1) =>
        LET s == ret.val.str IN
        /\ s[1] # "|"
        /\ s[Len(s)] # "|"
        /\ Cardinality({i \in 1..Len(s) : s[i] = "|"}) = Len(things) - 1

C7_NoRequestBeforeTypeCheck ==
    call.op \in MkListBuilders \cup {"info"} =>
        /\ (\E n \in 1..Len(call.pre) : TypeOf(call.pre[n]) # "Page") =>
             /\ pc = "done"
             /\ ret.exc = "TypeError"
             /\ requests = <<>>
        /\ requests # <<>> => \A n \in 1..Len(things) : TypeOf(things[n]) = "Page"
        /\ things = call.pre

C7_Witness ==
    /\ call.op = "categories" /\ pc = "done" /\ ret.exc = "TypeError"
    /\ call.pre = <<PageA, Rev7>>
    /\ requests = <<>>

\* C8: every object _convert returns was constructed without a '*' keyword;
\* where the raw record (page record or nested record) had a '*' field the
\* constructor got its value as 'content' and every other field but a
\* former 'content' as it was, and where it had none the constructor got
\* the record's fields as they were.
Renamed(raw, kw) ==
    /\ "*" \notin DOMAIN kw
    /\ IF "*" \in DOMAIN raw
       THEN /\ DOMAIN kw = (DOMAIN raw \ {"*"}) \cup {"content"}
            /\ kw["content"] = raw["*"]
            /\ \A f \in DOMAIN raw \ {"*", "content"} : kw[f] = raw[f]
       ELSE kw = raw

C8_StarRenamed ==
    (call.op = "_convert" /\ ret.exc = "none") =>
        LET raw == Values(call.arg.iterable)
            out == ret.val
            key == call.arg.key
        IN  /\ Len(out) = Len(raw)
            /\ \A n \in 1..Len(raw) :
                 /\ Renamed(raw[n], out[n].kw)
                 /\ Len(out[n].attrs[key]) = Len(raw[n][key])
                 /\ \A m \in 1..Len(raw[n][key]) :
                      Renamed(raw[n][key][m], out[n].attrs[key][m].kw)

C8_Witness ==
    /\ call.op = "_convert" /\ ret.exc = "none"
    /\ "dict" \in DOMAIN call.arg.iterable
    /\ Len(ret.val) = 2
    /\ "*" \in DOMAIN Values(call.arg.iterable)[1]
    /\ "content" \in DOMAIN Values(call.arg.iterable)[1]
    /\ "*" \notin DOMAIN Values(call.arg.iterable)[2]
    /\ Len(ret.val[2].attrs[call.arg.key]) = 2

\* C9: imageinfo raises NotImplementedError, makes no request and leaves
\* the Queue's items as they were, whatever the Queue holds.
C9_ImageinfoNotImplemented ==
    call.op = "imageinfo" =>
        /\ pc = "done"
        /\ ret = Raise("NotImplementedError")
        /\ requests = <<>>
        /\ responses = <<>>
        /\ things = call.pre

C9_Witness ==
    /\ call.op = "imageinfo" /\ pc = "done"
    /\ things = <<Rev7, PageA>>
    /\ call.arg # <<>>

\* C10: the first request carries the builder's parameters as built, and
\* the limit parameter is the first of them whose name ends in 'limit';
\* every later request carries the parameters of the request before it,
\* overwritten by the entries of the 'continue' block of the response
\* before it, with the limit parameter set to what _wraplimit returned
\* when called with the parameters of the request before it.
C10_NextRequestParams ==
    InMkList =>
        /\ requests # <<>> => requests[1] = call.arg.params
        /\ requests # <<>> => limitkey = BuilderLimitKey(call.op)
        /\ Len(wraps) = Len(requests) - (IF pc = "done" /\ requests # <<>> THEN 1 ELSE 0)
        /\ \A i \in 2..Len(requests) :
             LET prev == requests[i - 1]
                 cont == responses[i - 1]["continue"]
                 this == requests[i]
             IN  /\ wraps[i - 1].arg = prev
                 /\ Get(this, limitkey) = wraps[i - 1].ret
                 /\ Keys(this) = Keys(prev) \cup Keys(cont) \cup {limitkey}
                 /\ \A k \in Keys(cont) \ {limitkey} : Get(this, k) = Get(cont, k)
                 /\ \A k \in Keys(prev) \ (Keys(cont) \cup {limitkey}) :
                      Get(this, k) = Get(prev, k)

C10_Witness ==
    /\ InMkList /\ Len(requests) = 2
    /\ Has(responses[1]["continue"], limitkey)
    /\ Has(requests[1], <<"rv", "limit">>)
    /\ Get(requests[1], limitkey) = MAX
    /\ Get(requests[2], limitkey) = PyInt(2)

====
